---- MODULE Spec2Model ----
(***************************************************************************)
(* ExitWave: the position monitor (exitwave/monitor.py), the order         *)
(* executor (exitwave/executor.py) and the position parser                 *)
(* (exitwave/positions.py), as a state machine.                            *)
(*                                                                         *)
(* Three specifications:                                                   *)
(*   Spec       the PositionMonitor: its worker loop and its callers;      *)
(*   SpecExec   exit_all_positions followed by verify_exit_orders, called  *)
(*              directly on any list of positions;                         *)
(*   SpecParse  the filtering and aggregation of one snapshot.             *)
(* Spec and SpecExec share the executor's steps.                           *)
(* The broker (KiteConnect) answers every call nondeterministically.       *)
(***************************************************************************)
EXTENDS Integers, Sequences, FiniteSets, TLC

VARIABLES
    config,            \* ExitWaveConfig: max_loss, poll_interval, exchanges, dry_run
    now,               \* the clock, datetime.now(IST), in seconds
    thread,            \* self._thread: "none", "alive" or "dead"
    stop_event,        \* self._stop_event
    exit_count,        \* self._exit_count
    all_exit_results,  \* self._all_exit_results
    exited_symbols,    \* self._exited_symbols
    last_exit_time,    \* self._last_exit_time: None or Some(t)
    poll_count,        \* self._poll_count
    last_pnl,          \* self._last_pnl: None or Some(pnl)
    peak_loss,         \* self._peak_loss
    pc,                \* where the worker (or the direct caller of the executor) is
    waits,             \* the timeouts of the stop_event.wait calls still to run
    ex,                \* the executor's frame: locals of exit_all_positions / verify_exit_orders
    order_seq,         \* the broker: the number of orders it has accepted
    caller,            \* the callers of start/stop/wait: joins in progress, starts made,
                       \* and whether the last start() found the monitor running
    obs                \* what the current loop iteration has done so far (observation only)

vars == <<config, now, thread, stop_event, exit_count, all_exit_results, exited_symbols,
          last_exit_time, poll_count, last_pnl, peak_loss, pc, waits, ex, order_seq,
          caller, obs>>

sessionVars == <<exit_count, all_exit_results, exited_symbols, last_exit_time,
                 poll_count, last_pnl, peak_loss>>

(***************************************************************************)
(* Bounds of the model                                                     *)
(***************************************************************************)
\* The longest position list a snapshot (or a direct call) holds.
MaxPositions == 2
\* The market-close time, in seconds after the model's first instant.
CloseTime == 33
\* The number of start() calls the callers make.
MaxStarts == 2
\* The latest time a join of stop() is followed to when it times out.
MaxClock == 40

(***************************************************************************)
(* Values                                                                  *)
(***************************************************************************)
None == <<>>
Some(x) == <<x>>
IsNone(o) == o = <<>>
TheValue(o) == o[1]

Abs(n) == IF n < 0 THEN -n ELSE n

SeqsUpTo(S, n) == UNION {[1..k -> S] : k \in 0..n}

\* dict.get(key, default)
Get(d, key, default) == IF key \in DOMAIN d THEN d[key] ELSE default

(***************************************************************************)
(* exitwave/positions.py                                                   *)
(***************************************************************************)
\* Every parsed position taken for an open one.
IsOpenAlways(p) == TRUE

\* FnOPosition.is_open
is_open(p) == p.quantity # 0

\* FnOPosition.side
side(p) == IF p.quantity > 0 THEN "LONG" ELSE IF p.quantity < 0 THEN "SHORT" ELSE "FLAT"

\* One raw entry of kite.positions()["net"] made into an FnOPosition, every
\* missing key defaulted (the price and token fields decide nothing and are left out).
FnOPosition(pos) ==
    [tradingsymbol |-> Get(pos, "tradingsymbol", ""),
     exchange      |-> Get(pos, "exchange", ""),
     product       |-> Get(pos, "product", ""),
     quantity      |-> Get(pos, "quantity", 0),
     pnl           |-> Get(pos, "pnl", 0)]

\* parse_fno_positions: the entries whose exchange is one of `exchanges`, in order.
RECURSIVE parse_fno_positions(_, _)
parse_fno_positions(net, exchanges) ==
    IF net = <<>> THEN <<>>
    ELSE IF Get(Head(net), "exchange", "") \notin exchanges
         THEN parse_fno_positions(Tail(net), exchanges)
         ELSE <<FnOPosition(Head(net))>> \o parse_fno_positions(Tail(net), exchanges)

\* The parsed positions returned without the filter on is_open.
AllParsedPositions(net, exchanges) == parse_fno_positions(net, exchanges)

\* get_open_fno_positions, after the fetch: the parsed positions that are open.
get_open_fno_positions(net, exchanges) ==
    SelectSeq(parse_fno_positions(net, exchanges), is_open)

\* calculate_total_pnl
RECURSIVE calculate_total_pnl(_)
calculate_total_pnl(positions) ==
    IF positions = <<>> THEN 0
    ELSE Head(positions).pnl + calculate_total_pnl(Tail(positions))

(***************************************************************************)
(* What the broker can answer                                              *)
(***************************************************************************)
\* Entries of kite.positions()["net"]: the two legs of the loss scenario, a
\* third losing leg and a winning leg on the second exchange, a closed leg, a
\* leg on an exchange that is not configured, a leg whose exchange is in
\* lower case, and an entry with no quantity key.
LongX ==
    [tradingsymbol |-> "X", exchange |-> "NFO", product |-> "NRML", quantity |-> 50, pnl |-> -3000]
ShortY ==
    [tradingsymbol |-> "Y", exchange |-> "NFO", product |-> "NRML", quantity |-> -25, pnl |-> -2500]
ShortYBfo ==
    [tradingsymbol |-> "Y", exchange |-> "BFO", product |-> "MIS", quantity |-> -10, pnl |-> -2000]
WinningX ==
    [tradingsymbol |-> "X", exchange |-> "BFO", product |-> "MIS", quantity |-> 10, pnl |-> 1500]
ClosedX ==
    [tradingsymbol |-> "X", exchange |-> "NFO", product |-> "NRML", quantity |-> 0, pnl |-> -4000]
OtherVenueY ==
    [tradingsymbol |-> "Y", exchange |-> "NSE", product |-> "CNC", quantity |-> 10, pnl |-> -6000]
LowerCaseX ==
    [tradingsymbol |-> "X", exchange |-> "nfo", product |-> "NRML", quantity |-> 50, pnl |-> -3000]
NoQuantityY ==
    [tradingsymbol |-> "Y", exchange |-> "NFO", product |-> "NRML", pnl |-> -5000]

RawPositions ==
    {LongX, ShortY, ShortYBfo, WinningX, ClosedX, OtherVenueY, LowerCaseX, NoQuantityY}

\* Every answer of kite.positions() of at most MaxPositions entries.
Snapshots == SeqsUpTo(RawPositions, MaxPositions)

\* The answers of kite.positions() the monitor's runs are checked with: no
\* entry; entries that are all closed, on another exchange or in lower case;
\* the loss scenario (-5500); a loss of exactly -5000; losses of -4500, -3000
\* (beside a larger loss on another exchange) and -2500; a profit.
MonitorSnapshots ==
    { <<>>,
      <<ClosedX, OtherVenueY>>,
      <<LowerCaseX, NoQuantityY>>,
      <<LongX, ShortY>>,
      <<LongX, ShortYBfo>>,
      <<ShortY, ShortYBfo>>,
      <<OtherVenueY, LongX, ClosedX>>,
      <<ShortY>>,
      <<WinningX>> }

\* str(e) of the exceptions kite.place_order raises.
PlaceErrors == {"Connection timed out", "Incorrect api_key or access_token"}

\* The one the monitor's runs are checked with: the credential error, the
\* error that stops the loop when kite.positions() raises it.
MonitorPlaceErrors == {"Incorrect api_key or access_token"}

\* The order id the broker gives its n-th accepted order.
OrderId(n) == <<"ORDER", n>>
DRY_RUN == <<"DRY_RUN", 0>>

\* What kite.order_history returns: a list of status entries, oldest first.
Histories ==
    { <<>>,
      <<[status |-> "OPEN"]>>,
      <<[status |-> "OPEN"], [status |-> "COMPLETE"]>>,
      <<[status |-> "COMPLETE"], [status |-> "REJECTED", status_message |-> "Insufficient funds"]>>,
      <<[status_message |-> "no status"]>> }

(***************************************************************************)
(* exitwave/executor.py                                                    *)
(*                                                                         *)
(* The frame `ex` holds the locals of the executor call in progress:       *)
(*   phase      "none", "place" (inside exit_all_positions), "placed" (it  *)
(*              has returned), "lookup" (inside verify_exit_orders),       *)
(*              "verified" (it has returned)                               *)
(*   positions, dry_run   the arguments                                    *)
(*   idx, attempt, error  the position being exited, the attempt of        *)
(*              place_exit_order's loop, result.error so far               *)
(*   results    the results collected so far                               *)
(*   succ, vidx, all_completed, ret   verify_exit_orders' locals and its   *)
(*              return value                                               *)
(*   trace      the broker calls, sleeps and log lines of the call         *)
(*   seen       what kite.order_history answered to each lookup            *)
(***************************************************************************)
\* One attempt more than the code makes.
FourRetries == 3 + 1

max_retries == 3
RetrySleep == 1
SettleSleep == 2

NoFrame ==
    [phase |-> "none", positions |-> <<>>, dry_run |-> FALSE, idx |-> 0, attempt |-> 0,
     error |-> "", results |-> <<>>, succ |-> <<>>, vidx |-> 0, all_completed |-> TRUE,
     ret |-> None, trace |-> <<>>, seen |-> <<>>]

\* A closed position taken for a long one.
ExitTransactionZeroIsLong(position) ==
    IF position.quantity >= 0 THEN "SELL" ELSE "BUY"

\* _determine_exit_transaction
_determine_exit_transaction(position) ==
    IF position.quantity > 0 THEN "SELL"
    ELSE IF position.quantity < 0 THEN "BUY"
    ELSE ""

\* The result with success left at the default of its field.
ExitOrderResultSuccessUnset(position, transaction_type, quantity, order_id, success, error) ==
    [tradingsymbol |-> position.tradingsymbol, exchange |-> position.exchange,
     transaction_type |-> transaction_type, quantity |-> quantity,
     order_id |-> order_id, success |-> FALSE, error |-> error]

ExitOrderResult(position, transaction_type, quantity, order_id, success, error) ==
    [tradingsymbol |-> position.tradingsymbol, exchange |-> position.exchange,
     transaction_type |-> transaction_type, quantity |-> quantity,
     order_id |-> order_id, success |-> success, error |-> error]

CountSuccess(results) == Len(SelectSeq(results, LAMBDA r : r.success))
CountFailed(results) == Len(SelectSeq(results, LAMBDA r : ~r.success))

\* The breach announced before the list is looked at.
ExitAllAnnouncesFirst(positions, dry_run) ==
    IF positions = <<>>
    THEN [NoFrame EXCEPT !.phase = "placed", !.dry_run = dry_run,
                         !.trace = << <<"log", "THRESHOLD BREACHED! Exiting">>,
                                      <<"log", "No positions to exit.">> >>]
    ELSE [NoFrame EXCEPT !.phase = "place", !.positions = positions, !.dry_run = dry_run,
                         !.idx = 1, !.attempt = 1,
                         !.trace = << <<"log", "THRESHOLD BREACHED! Exiting">> >>]

\* exit_all_positions up to its loop: the empty list returns at once.
ExitAllEnter(positions, dry_run) ==
    IF positions = <<>>
    THEN [NoFrame EXCEPT !.phase = "placed", !.dry_run = dry_run,
                         !.trace = << <<"log", "No positions to exit.">> >>]
    ELSE [NoFrame EXCEPT !.phase = "place", !.positions = positions, !.dry_run = dry_run,
                         !.idx = 1, !.attempt = 1,
                         !.trace = << <<"log", "THRESHOLD BREACHED! Exiting">> >>]

\* The batch given up at the first failed result.
ResultReturnedStopsOnFailure(f, result, events) ==
    LET results == Append(f.results, result)
        last == f.idx = Len(f.positions) \/ ~result.success
    IN  [f EXCEPT !.results = results, !.idx = f.idx + 1, !.attempt = 1, !.error = "",
                  !.phase = IF last THEN "placed" ELSE "place",
                  !.trace = f.trace \o events \o
                            (IF last
                             THEN << <<"tally", CountSuccess(results), CountFailed(results)>> >>
                             ELSE <<>>)]

\* The batch given up once the stop event is set.
ResultReturnedUnlessStopped(f, result, events) ==
    LET results == Append(f.results, result)
        last == f.idx = Len(f.positions) \/ stop_event
    IN  [f EXCEPT !.results = results, !.idx = f.idx + 1, !.attempt = 1, !.error = "",
                  !.phase = IF last THEN "placed" ELSE "place",
                  !.trace = f.trace \o events \o
                            (IF last
                             THEN << <<"tally", CountSuccess(results), CountFailed(results)>> >>
                             ELSE <<>>)]

\* place_exit_order has returned `result`: exit_all_positions appends it and
\* goes on to the next position, or logs its tally and returns.
ResultReturned(f, result, events) ==
    LET results == Append(f.results, result)
        last == f.idx = Len(f.positions)
    IN  [f EXCEPT !.results = results, !.idx = f.idx + 1, !.attempt = 1, !.error = "",
                  !.phase = IF last THEN "placed" ELSE "place",
                  !.trace = f.trace \o events \o
                            (IF last
                             THEN << <<"tally", CountSuccess(results), CountFailed(results)>> >>
                             ELSE <<>>)]

\* for attempt in range(1, max_retries + 1): whether another attempt follows.
AttemptsLeft(attempt) == attempt < max_retries

\* if attempt < max_retries: time.sleep(1)
SleepsAfter(attempt) == attempt < max_retries

\* The first error kept instead of the last.
ErrorKeepsFirst(error, error_msg) == IF error = "" THEN error_msg ELSE error

\* result.error = error_msg
ErrorAfter(error, error_msg) == error_msg

\* The dry-run branch never taken.
NeverSimulated(dry_run) == FALSE

\* if dry_run: the order is simulated
Simulated(dry_run) == dry_run

\* The arguments of kite.place_order.
OrderArgs(position, transaction_type, quantity) ==
    [variety |-> "regular", exchange |-> position.exchange,
     tradingsymbol |-> position.tradingsymbol, transaction_type |-> transaction_type,
     quantity |-> quantity, product |-> position.product, order_type |-> "MARKET",
     validity |-> "DAY", tag |-> "ExitWave"]

\* One step of place_exit_order for positions[idx]: the whole call when it
\* makes no broker call, else one attempt of its retry loop. `answer` is what
\* kite.place_order does: "ok", or the text of the exception it raises;
\* `seq` is the number of orders the broker has accepted.
\* Gives the frame, the seconds slept and the broker's new count.
PlaceStep(f, answer, seq) ==
    LET position == f.positions[f.idx]
        transaction_type == _determine_exit_transaction(position)
        quantity == Abs(position.quantity)
        args == OrderArgs(position, transaction_type, quantity)
    IN  IF transaction_type = ""
        THEN [ex |-> ResultReturned(f, ExitOrderResult(position, "NONE", 0, None, FALSE,
                                        "Position has zero quantity, nothing to exit."), <<>>),
              dt |-> 0, seq |-> seq]
        ELSE IF Simulated(f.dry_run)
        THEN [ex |-> ResultReturned(f, ExitOrderResult(position, transaction_type, quantity,
                                        DRY_RUN, TRUE, ""),
                                    << <<"log", "[DRY-RUN] EXIT ORDER">> >>),
              dt |-> 0, seq |-> seq]
        ELSE IF answer = "ok"
        THEN [ex |-> ResultReturned(f, ExitOrderResult(position, transaction_type, quantity,
                                        OrderId(seq + 1), TRUE, f.error),
                                    << <<"place_order", f.idx, args, "ok", OrderId(seq + 1)>> >>),
              dt |-> 0, seq |-> seq + 1]
        ELSE LET error == ErrorAfter(f.error, answer)
                 call == <<"place_order", f.idx, args, answer, None>>
                 events == IF SleepsAfter(f.attempt)
                           THEN <<call, <<"sleep", f.idx, RetrySleep>> >>
                           ELSE <<call>>
                 dt == IF SleepsAfter(f.attempt) THEN RetrySleep ELSE 0
             IN  IF AttemptsLeft(f.attempt)
                 THEN [ex |-> [f EXCEPT !.error = error, !.attempt = f.attempt + 1,
                                        !.trace = f.trace \o events],
                       dt |-> dt, seq |-> seq]
                 ELSE [ex |-> ResultReturned(f, ExitOrderResult(position, transaction_type,
                                                 quantity, None, FALSE, error), events),
                       dt |-> dt, seq |-> seq]

\* bool(r.order_id)
HasOrderId(r) == r.order_id # None

\* Nothing to check taken for nothing wrong.
NoOrdersVerdictTrue == TRUE

\* if not successful_results: return False
NoOrdersVerdict == FALSE

\* verify_exit_orders up to its loop. Gives the frame and the seconds slept.
VerifyEnter(results, dry_run) ==
    LET successful_results == SelectSeq(results, LAMBDA r : r.success /\ HasOrderId(r))
    IN  IF dry_run
        THEN [ex |-> [NoFrame EXCEPT !.phase = "verified", !.dry_run = dry_run,
                                     !.results = results, !.ret = Some(TRUE),
                                     !.trace = << <<"log", "Skipping order verification.">> >>],
              dt |-> 0]
        ELSE IF successful_results = <<>>
        THEN [ex |-> [NoFrame EXCEPT !.phase = "verified", !.results = results,
                                     !.ret = Some(NoOrdersVerdict)],
              dt |-> 0]
        ELSE [ex |-> [NoFrame EXCEPT !.phase = "lookup", !.results = results,
                                     !.succ = successful_results, !.vidx = 1,
                                     !.trace = << <<"sleep", 0, SettleSleep>> >>],
              dt |-> SettleSleep]

\* What a call of kite.order_history does: it raises, or returns a history.
HistoryAnswers == {<<"raise", <<>>>>} \cup {<<"return", h>> : h \in Histories}

\* What verify_exit_orders makes of one answer of kite.order_history: "ERROR"
\* when the call raised, "EMPTY" when the history is empty, else the branch
\* taken on the status of the latest entry.
Classify(answer) ==
    LET order_history == answer[2]
    IN  IF answer[1] = "raise" THEN "ERROR"
        ELSE IF order_history = <<>> THEN "EMPTY"
        ELSE LET latest == order_history[Len(order_history)]
                 status == Get(latest, "status", "UNKNOWN")
             IN  IF status = "COMPLETE" THEN "COMPLETE"
                 ELSE IF status = "REJECTED" THEN "REJECTED"
                 ELSE "PENDING"

\* Whether that answer leaves all_completed as it is.
KeepsCompleted(answer) == Classify(answer) \in {"COMPLETE", "EMPTY"}

\* The loop of verify_exit_orders given up at the first lookup that raises.
LookupStepAbortsOnError(f, answer) ==
    LET result == f.succ[f.vidx]
        all_completed == f.all_completed /\ KeepsCompleted(answer)
        last == f.vidx = Len(f.succ) \/ answer[1] = "raise"
    IN  [f EXCEPT !.all_completed = all_completed, !.vidx = f.vidx + 1,
                  !.phase = IF last THEN "verified" ELSE "lookup",
                  !.ret = IF last THEN Some(all_completed) ELSE None,
                  !.trace = Append(f.trace, <<"order_history", f.vidx, result.order_id>>),
                  !.seen = Append(f.seen, answer)]

\* One iteration of verify_exit_orders' loop: the lookup of succ[vidx].
LookupStep(f, answer) ==
    LET result == f.succ[f.vidx]
        all_completed == f.all_completed /\ KeepsCompleted(answer)
        last == f.vidx = Len(f.succ)
    IN  [f EXCEPT !.all_completed = all_completed, !.vidx = f.vidx + 1,
                  !.phase = IF last THEN "verified" ELSE "lookup",
                  !.ret = IF last THEN Some(all_completed) ELSE None,
                  !.trace = Append(f.trace, <<"order_history", f.vidx, result.order_id>>),
                  !.seen = Append(f.seen, answer)]

(***************************************************************************)
(* SpecExec: exit_all_positions(kite, positions, dry_run) and then         *)
(* verify_exit_orders(kite, results, verify_dry_run), called directly.     *)
(* The arguments are held in `obs`.                                        *)
(***************************************************************************)
\* The positions a caller can pass: the parsed entries of one exchange, a long
\* leg, a short leg and a closed leg.
ExecPositions ==
    {FnOPosition(r) : r \in {raw \in RawPositions :
                                /\ Get(raw, "exchange", "") = "NFO"
                                /\ "quantity" \in DOMAIN raw}}

NoObs == [kind |-> "none"]

InitExec ==
    /\ config = [max_loss |-> 5000, poll_interval |-> 10, exchanges |-> {"NFO", "BFO"},
                 dry_run |-> FALSE]
    /\ now = 0
    /\ thread = "none"
    /\ stop_event = FALSE
    /\ exit_count = 0
    /\ all_exit_results = <<>>
    /\ exited_symbols = {}
    /\ last_exit_time = None
    /\ poll_count = 0
    /\ last_pnl = None
    /\ peak_loss = 0
    /\ pc = "call_exit"
    /\ waits = <<>>
    /\ ex = NoFrame
    /\ order_seq = 0
    /\ caller = [stop_join |-> None, waiting |-> FALSE, refused |-> FALSE,
                 starts |-> 0]
    /\ \E positions \in SeqsUpTo(ExecPositions, MaxPositions), d \in BOOLEAN, vd \in BOOLEAN :
          obs = [kind |-> "exec", positions |-> positions, dry_run |-> d,
                 verify_dry_run |-> vd, exit_trace |-> <<>>]

monitorVars == <<config, thread, stop_event, sessionVars, waits, caller>>

\* The caller enters exit_all_positions.
ExecExitAll ==
    /\ pc = "call_exit"
    /\ ex' = ExitAllEnter(obs.positions, obs.dry_run)
    /\ pc' = IF ex'.phase = "placed" THEN "call_verify" ELSE "place"
    /\ UNCHANGED <<monitorVars, now, order_seq, obs>>

\* One step of place_exit_order.
ExecPlace ==
    /\ pc = "place"
    /\ \E answer \in {"ok"} \cup PlaceErrors :
          LET step == PlaceStep(ex, answer, order_seq)
          IN  /\ ex' = step.ex
              /\ now' = now + step.dt
              /\ order_seq' = step.seq
              /\ pc' = IF step.ex.phase = "placed" THEN "call_verify" ELSE "place"
    /\ UNCHANGED <<monitorVars, obs>>

\* The caller passes the results to verify_exit_orders.
ExecVerify ==
    /\ pc = "call_verify"
    /\ LET enter == VerifyEnter(ex.results, obs.verify_dry_run)
       IN  /\ ex' = [enter.ex EXCEPT !.positions = ex.positions]
           /\ now' = now + enter.dt
           /\ pc' = IF enter.ex.phase = "verified" THEN "returned" ELSE "lookup"
    /\ obs' = [obs EXCEPT !.exit_trace = ex.trace]
    /\ UNCHANGED <<monitorVars, order_seq>>

\* One lookup of verify_exit_orders.
ExecLookup ==
    /\ pc = "lookup"
    /\ \E answer \in HistoryAnswers :
          /\ ex' = LookupStep(ex, answer)
          /\ pc' = IF ex'.phase = "verified" THEN "returned" ELSE "lookup"
    /\ UNCHANGED <<monitorVars, now, order_seq, obs>>

NextExec == ExecExitAll \/ ExecPlace \/ ExecVerify \/ ExecLookup

SpecExec == InitExec /\ [][NextExec]_vars

(***************************************************************************)
(* exitwave/monitor.py: PositionMonitor                                    *)
(*                                                                         *)
(* The worker runs _monitor_loop one step at a time; a step ends where the *)
(* worker makes a blocking call (the broker, a sleep, a wait on the stop   *)
(* event). pc is "idle" before the first start(), then                     *)
(*   "loop"    at the top of the while loop                                *)
(*   "poll"    entering _poll_positions, before kite.positions() answers   *)
(*   "place"   inside exit_all_positions, called by _trigger_exit          *)
(*   "lookup"  inside verify_exit_orders, called by _trigger_exit          *)
(*   "wait"    in the stop_event.wait calls that end the iteration         *)
(*   "ended"   after the loop; the thread is dead                          *)
(***************************************************************************)
_exit_cooldown == 30
CooldownWait == 1
JoinTimeout == 30
NoPositionsLogEvery == 6
DetailEvery == 30

\* The thresholds of the loss scenarios.
MaxLosses == {5000, 10000}

Configs ==
    [max_loss : MaxLosses, poll_interval : {10}, exchanges : {{"NFO", "BFO"}},
     dry_run : BOOLEAN]

\* The exceptions kite.positions() raises: type(e).__name__ and str(e).
FetchErrors ==
    { [name |-> "NetworkException", text |-> "Connection timed out"],
      [name |-> "TokenException", text |-> "Incorrect api_key or access_token"],
      [name |-> "InputException", text |-> "Invalid token"],
      [name |-> "PermissionException", text |-> "Session expired"] }

FetchAnswers ==
    {<<"raise", e>> : e \in FetchErrors} \cup {<<"return", net>> : net \in MonitorSnapshots}

\* "Token" in error_name
NameHasToken(name) == name \in {"TokenException"}

\* "token" in str(error).lower()
TextHasToken(text) == text \in {"Incorrect api_key or access_token", "Invalid token"}

\* The authentication test looking at the name of the exception only.
IsAuthErrorByNameOnly(e) == NameHasToken(e.name)

\* The test of _handle_poll_error for an authentication error.
IsAuthError(e) == NameHasToken(e.name) \/ TextHasToken(e.text)

\* The market taken for open at the instant it closes.
MarketOpenAtClose == now <= CloseTime

\* _is_market_open
_is_market_open == now < CloseTime

\* The cooldown lasting one tick too long.
InCooldownInclusive ==
    /\ last_exit_time # None
    /\ now - TheValue(last_exit_time) <= _exit_cooldown

\* The cooldown test of _monitor_loop: elapsed < self._exit_cooldown.
InCooldown ==
    /\ last_exit_time # None
    /\ now - TheValue(last_exit_time) < _exit_cooldown

\* The comparison made strict: a loss equal to the threshold is no breach.
RatioAbove(total_pnl, max_loss, num, den) ==
    IF total_pnl < 0 THEN den * Abs(total_pnl) > num * max_loss ELSE 0 > num

\* loss_ratio >= num / den, where
\* loss_ratio = abs(total_pnl) / config.max_loss if total_pnl < 0 else 0
RatioAtLeast(total_pnl, max_loss, num, den) ==
    IF total_pnl < 0 THEN den * Abs(total_pnl) >= num * max_loss ELSE 0 >= num

\* The two lower bands entered above their ratio only, not at it.
BandAboveItsRatio(total_pnl, max_loss) ==
    IF RatioAtLeast(total_pnl, max_loss, 1, 1) THEN "BREACH"
    ELSE IF RatioAbove(total_pnl, max_loss, 8, 10) THEN "APPROACHING"
    ELSE IF RatioAbove(total_pnl, max_loss, 5, 10) THEN "ELEVATED"
    ELSE "NORMAL"

\* The branch _poll_positions takes on loss_ratio.
Band(total_pnl, max_loss) ==
    IF RatioAtLeast(total_pnl, max_loss, 1, 1) THEN "BREACH"
    ELSE IF RatioAtLeast(total_pnl, max_loss, 8, 10) THEN "APPROACHING"
    ELSE IF RatioAtLeast(total_pnl, max_loss, 5, 10) THEN "ELEVATED"
    ELSE "NORMAL"

\* The peak following the latest loss instead of the worst.
PeakFollowsLatestLoss(peak, total_pnl) == IF total_pnl < 0 THEN total_pnl ELSE peak

\* if total_pnl < self._peak_loss: self._peak_loss = total_pnl
PeakAfter(peak, total_pnl) == IF total_pnl < peak THEN total_pnl ELSE peak

\* The exit count as a flag: set by the first exit, left alone by the others.
ExitCountSaturates(n) == IF n = 0 THEN 1 ELSE n

\* self._exit_count += 1
ExitCountAfter(n) == n + 1

\* The summary counting the exit orders where it should count the exit events.
SessionSummaryCountsOrders ==
    [polls |-> poll_count, last_pnl |-> last_pnl, peak_loss |-> peak_loss,
     threshold |-> -config.max_loss, exit_events |-> Len(all_exit_results),
     tally |-> IF all_exit_results = <<>> THEN None
               ELSE Some(<<CountSuccess(all_exit_results), CountFailed(all_exit_results)>>)]

\* _print_session_summary; the tally of the orders is printed only when
\* there are results.
SessionSummary ==
    [polls |-> poll_count, last_pnl |-> last_pnl, peak_loss |-> peak_loss,
     threshold |-> -config.max_loss, exit_events |-> exit_count,
     tally |-> IF all_exit_results = <<>> THEN None
               ELSE Some(<<CountSuccess(all_exit_results), CountFailed(all_exit_results)>>)]

\* What an iteration of the loop has done, when it starts.
NewObs(kind) ==
    [kind |-> kind, fetched |-> FALSE, net |-> <<>>, error |-> None,
     positions |-> <<>>, total_pnl |-> None, band |-> "", exit_invoked |-> FALSE,
     listing |-> FALSE, log |-> "", exit_done |-> FALSE, place_calls |-> 0,
     lookups |-> 0, verified |-> None, summary |-> None]

\* The number of calls of broker operation `op` in a trace.
CallsOf(op, trace) == Len(SelectSeq(trace, LAMBDA e : e[1] = op))

\* What is kept of the frame of a finished _trigger_exit.
ExitDone(o, f) ==
    [o EXCEPT !.exit_done = TRUE, !.place_calls = CallsOf("place_order", f.trace),
              !.lookups = CallsOf("order_history", f.trace), !.verified = f.ret]

Init ==
    /\ config \in Configs
    /\ now = 0
    /\ thread = "none"
    /\ stop_event = FALSE
    /\ exit_count = 0
    /\ all_exit_results = <<>>
    /\ exited_symbols = {}
    /\ last_exit_time = None
    /\ poll_count = 0
    /\ last_pnl = None
    /\ peak_loss = 0
    /\ pc = "idle"
    /\ waits = <<>>
    /\ ex = NoFrame
    /\ order_seq = 0
    /\ caller = [stop_join |-> None, waiting |-> FALSE, refused |-> FALSE,
                 starts |-> 0]
    /\ obs = NewObs("none")

\* is_running
is_running == thread = "alive"

\* An exit taken to have happened once its time is stamped.
HasExitedOnceStamped == last_exit_time # None

\* has_exited
has_exited == exit_count > 0

\* start() without the test of is_running: the session is reset under a
\* worker that is running.
StartResetsWhileRunning ==
    /\ caller.starts < MaxStarts
    /\ ~caller.waiting
    /\ caller.stop_join = None
    /\ caller' = [caller EXCEPT !.starts = caller.starts + 1]
    /\ stop_event' = FALSE
    /\ exit_count' = 0
    /\ all_exit_results' = <<>>
    /\ exited_symbols' = {}
    /\ last_exit_time' = None
    /\ poll_count' = 0
    /\ peak_loss' = 0
    /\ thread' = "alive"
    /\ pc' = IF is_running THEN pc ELSE "loop"
    /\ waits' = IF is_running THEN waits ELSE <<>>
    /\ ex' = IF is_running THEN ex ELSE NoFrame
    /\ obs' = IF is_running THEN obs ELSE NewObs("started")
    /\ UNCHANGED <<config, now, last_pnl, order_seq>>

\* start() with the stop event cleared before the test of is_running.
StartClearsStopWhileRunning ==
    /\ caller.starts < MaxStarts
    /\ ~caller.waiting
    /\ caller.stop_join = None
    /\ caller' = [caller EXCEPT !.starts = caller.starts + 1, !.refused = is_running]
    /\ stop_event' = FALSE
    /\ IF is_running
       THEN UNCHANGED <<config, now, thread, sessionVars, pc, waits, ex, order_seq, obs>>
       ELSE /\ exit_count' = 0
            /\ all_exit_results' = <<>>
            /\ exited_symbols' = {}
            /\ last_exit_time' = None
            /\ poll_count' = 0
            /\ peak_loss' = 0
            /\ thread' = "alive"
            /\ pc' = "loop"
            /\ waits' = <<>>
            /\ ex' = NoFrame
            /\ obs' = NewObs("started")
            /\ UNCHANGED <<config, now, last_pnl, order_seq>>

\* start(): "Monitor is already running." and nothing else when the thread is
\* alive.
Start ==
    /\ caller.starts < MaxStarts
    /\ ~caller.waiting
    /\ caller.stop_join = None
    /\ caller' = [caller EXCEPT !.starts = caller.starts + 1, !.refused = is_running]
    /\ IF is_running
       THEN UNCHANGED <<config, now, thread, stop_event, sessionVars, pc, waits, ex,
                        order_seq, obs>>
       ELSE /\ stop_event' = FALSE
            /\ exit_count' = 0
            /\ all_exit_results' = <<>>
            /\ exited_symbols' = {}
            /\ last_exit_time' = None
            /\ poll_count' = 0
            /\ peak_loss' = 0
            /\ thread' = "alive"
            /\ pc' = "loop"
            /\ waits' = <<>>
            /\ ex' = NoFrame
            /\ obs' = NewObs("started")
            /\ UNCHANGED <<config, now, last_pnl, order_seq>>

\* stop(): the event is set, and the join begins when there is a thread.
Stop ==
    /\ caller.stop_join = None
    /\ stop_event' = TRUE
    /\ caller' = IF thread = "none" THEN caller
                 ELSE [caller EXCEPT !.stop_join = Some(now + JoinTimeout)]
    /\ UNCHANGED <<config, now, thread, sessionVars, pc, waits, ex, order_seq, obs>>

\* The join of stop() entered with no timeout: it returns when the thread has
\* ended, and not before.
StopReturnWhenDeadOnly ==
    /\ caller.stop_join # None
    /\ thread = "dead"
    /\ caller' = [caller EXCEPT !.stop_join = None]
    /\ UNCHANGED <<config, now, thread, stop_event, sessionVars, pc, waits, ex,
                   order_seq, obs>>

\* The worker is inside a call of the broker (or a sleep between two calls).
InBrokerCall == pc \in {"poll", "place", "lookup"}

\* A call of the broker that the worker is in takes longer than the join of
\* stop() waits: the clock reaches the end of the join's timeout with the
\* worker still in the call.
BrokerCallOutlastsJoin ==
    /\ caller.stop_join # None
    /\ thread = "alive"
    /\ InBrokerCall
    /\ now < TheValue(caller.stop_join)
    /\ TheValue(caller.stop_join) <= MaxClock
    /\ now' = TheValue(caller.stop_join)
    /\ UNCHANGED <<config, thread, stop_event, sessionVars, pc, waits, ex, order_seq,
                   caller, obs>>

\* stop() returns: the thread has ended, or the join has timed out.
StopReturn ==
    /\ caller.stop_join # None
    /\ thread = "dead" \/ now >= TheValue(caller.stop_join)
    /\ caller' = [caller EXCEPT !.stop_join = None]
    /\ UNCHANGED <<config, now, thread, stop_event, sessionVars, pc, waits, ex,
                   order_seq, obs>>

\* wait(): the join begins when there is a thread.
WaitCall ==
    /\ ~caller.waiting
    /\ caller.stop_join = None
    /\ thread # "none"
    /\ caller' = [caller EXCEPT !.waiting = TRUE]
    /\ UNCHANGED <<config, now, thread, stop_event, sessionVars, pc, waits, ex,
                   order_seq, obs>>

\* The join of wait() returning whatever the thread does, as a join with a
\* timeout would.
WaitReturnAnyTime ==
    /\ caller.waiting
    /\ caller' = [caller EXCEPT !.waiting = FALSE]
    /\ UNCHANGED <<config, now, thread, stop_event, sessionVars, pc, waits, ex,
                   order_seq, obs>>

\* wait() returns: the thread has ended.
WaitReturn ==
    /\ caller.waiting
    /\ thread = "dead"
    /\ caller' = [caller EXCEPT !.waiting = FALSE]
    /\ UNCHANGED <<config, now, thread, stop_event, sessionVars, pc, waits, ex,
                   order_seq, obs>>

\* The loop with a condition that does not look at the stop event: only the
\* market hours end it.
LoopTopIgnoresStop ==
    /\ pc = "loop"
    /\ IF ~_is_market_open
       THEN /\ pc' = "ended"
            /\ thread' = "dead"
            /\ waits' = <<>>
            /\ obs' = [NewObs("closed") EXCEPT !.summary = Some(SessionSummary)]
       ELSE IF InCooldown
       THEN /\ pc' = "wait"
            /\ waits' = <<CooldownWait>>
            /\ obs' = NewObs("cooldown")
            /\ UNCHANGED thread
       ELSE /\ pc' = "poll"
            /\ waits' = <<>>
            /\ obs' = NewObs("poll")
            /\ UNCHANGED thread
    /\ UNCHANGED <<config, now, stop_event, sessionVars, ex, order_seq, caller>>

\* The top of the while loop: the stop event, the market hours, the cooldown.
LoopTop ==
    /\ pc = "loop"
    /\ IF stop_event \/ ~_is_market_open
       THEN /\ pc' = "ended"
            /\ thread' = "dead"
            /\ waits' = <<>>
            /\ obs' = [NewObs(IF stop_event THEN "stopped" ELSE "closed")
                          EXCEPT !.summary = Some(SessionSummary)]
       ELSE IF InCooldown
       THEN /\ pc' = "wait"
            /\ waits' = <<CooldownWait>>
            /\ obs' = NewObs("cooldown")
            /\ UNCHANGED thread
       ELSE /\ pc' = "poll"
            /\ waits' = <<>>
            /\ obs' = NewObs("poll")
            /\ UNCHANGED thread
    /\ UNCHANGED <<config, now, stop_event, sessionVars, ex, order_seq, caller>>

\* The positions left out of an exit when their symbol has been exited before.
PositionsNotYetExited(positions, exited) ==
    SelectSeq(positions, LAMBDA p : p.tradingsymbol \notin exited)

\* self._trigger_exit(positions, total_pnl): the positions of the poll, all
\* of them, whatever self._exited_symbols holds.
PositionsToExit(positions, exited) == positions

\* The cooldown started only by an exit whose verification did not fail.
ExitStampIfVerified(t, f) == IF f.ret = Some(FALSE) THEN None ELSE Some(t)

\* self._last_exit_time = datetime.now(IST), at the end of _trigger_exit:
\* `f` is the frame of the executor call that ended it.
ExitStamp(t, f) == Some(t)

\* _trigger_exit going from exit_all_positions to the end without a call of
\* verify_exit_orders.
AfterExitAllSkipsVerify(f, t) == [ex |-> [f EXCEPT !.trace = <<>>], now |-> t, over |-> TRUE]

\* _trigger_exit after exit_all_positions has returned, up to the first
\* lookup of verify_exit_orders or to the end: `f` is the frame the call
\* left, `t` the time. Gives the frame, the time, and whether it is over.
AfterExitAll(f, t) ==
    IF config.dry_run
    THEN [ex |-> [f EXCEPT !.trace = <<>>], now |-> t, over |-> TRUE]
    ELSE LET enter == VerifyEnter(f.results, config.dry_run)
             frame == [enter.ex EXCEPT !.positions = f.positions]
         IN  [ex |-> frame, now |-> t + enter.dt, over |-> frame.phase = "verified"]

\* The listing written on the poll after each thirtieth.
ListingDueAfterThirtieth(polls) == polls % DetailEvery = 1

\* if self._poll_count % 30 == 0: the detailed listing, reached by the polls
\* that have not returned before it.
ListingDue(polls) == polls % DetailEvery = 0

\* _poll_positions up to its first blocking call after the fetch.
Poll ==
    /\ pc = "poll"
    /\ poll_count' = poll_count + 1
    /\ \E answer \in FetchAnswers :
          IF answer[1] = "raise"
          THEN \* except Exception as e: _handle_poll_error(e)
               /\ stop_event' = (stop_event \/ IsAuthError(answer[2]))
               /\ waits' = IF IsAuthError(answer[2])
                           THEN <<config.poll_interval>>
                           ELSE <<config.poll_interval, config.poll_interval>>
               /\ pc' = "wait"
               /\ obs' = [obs EXCEPT !.fetched = TRUE, !.error = Some(answer[2])]
               /\ UNCHANGED <<now, exit_count, all_exit_results, exited_symbols,
                              last_exit_time, last_pnl, peak_loss, ex>>
          ELSE LET positions == get_open_fno_positions(answer[2], config.exchanges)
                   total_pnl == calculate_total_pnl(positions)
                   band == Band(total_pnl, config.max_loss)
                   seen == [obs EXCEPT !.fetched = TRUE, !.net = answer[2],
                                       !.positions = positions]
               IN  IF positions = <<>>
                   THEN /\ pc' = "wait"
                        /\ waits' = <<config.poll_interval>>
                        /\ obs' = [seen EXCEPT !.log =
                                      IF poll_count' % NoPositionsLogEvery = 1
                                      THEN "No open F&O positions found." ELSE ""]
                        /\ UNCHANGED <<now, stop_event, exit_count, all_exit_results,
                                       exited_symbols, last_exit_time, last_pnl,
                                       peak_loss, ex>>
                   ELSE /\ last_pnl' = Some(total_pnl)
                        /\ peak_loss' = PeakAfter(peak_loss, total_pnl)
                        /\ IF band = "BREACH"
                           THEN \* _trigger_exit, up to the first step of place_exit_order
                                /\ exit_count' = ExitCountAfter(exit_count)
                                /\ ex' = ExitAllEnter(PositionsToExit(positions, exited_symbols),
                                                      config.dry_run)
                                /\ pc' = "place"
                                /\ waits' = <<>>
                                /\ obs' = [seen EXCEPT !.total_pnl = Some(total_pnl),
                                                       !.band = band,
                                                       !.exit_invoked = TRUE]
                           ELSE /\ pc' = "wait"
                                /\ waits' = <<config.poll_interval>>
                                /\ obs' = [seen EXCEPT !.total_pnl = Some(total_pnl),
                                                       !.band = band,
                                                       !.listing =
                                                          ListingDue(poll_count')]
                                /\ UNCHANGED <<exit_count, ex>>
                        /\ UNCHANGED <<now, stop_event, all_exit_results,
                                       exited_symbols, last_exit_time>>
    /\ UNCHANGED <<config, thread, order_seq, caller>>

\* The symbols of a list of positions.
SymbolsOf(positions) == {positions[i].tradingsymbol : i \in 1..Len(positions)}

\* One step of place_exit_order inside _trigger_exit; when it ends
\* exit_all_positions, _trigger_exit goes on to verify_exit_orders.
Place ==
    /\ pc = "place"
    /\ \E answer \in {"ok"} \cup MonitorPlaceErrors :
          LET step == PlaceStep(ex, answer, order_seq)
              after == AfterExitAll(step.ex, now + step.dt)
              frame == [after.ex EXCEPT !.trace = step.ex.trace \o after.ex.trace]
          IN  /\ order_seq' = step.seq
              /\ IF step.ex.phase # "placed"
                 THEN /\ ex' = step.ex
                      /\ now' = now + step.dt
                      /\ pc' = "place"
                      /\ UNCHANGED <<all_exit_results, exited_symbols, last_exit_time,
                                     waits, obs>>
                 ELSE /\ all_exit_results' = all_exit_results \o step.ex.results
                      /\ exited_symbols' = exited_symbols \cup SymbolsOf(step.ex.positions)
                      /\ now' = after.now
                      /\ IF after.over
                         THEN /\ last_exit_time' = ExitStamp(after.now, frame)
                              /\ pc' = "wait"
                              /\ waits' = <<config.poll_interval>>
                              /\ ex' = NoFrame
                              /\ obs' = ExitDone(obs, frame)
                         ELSE /\ pc' = "lookup"
                              /\ ex' = frame
                              /\ UNCHANGED <<last_exit_time, waits, obs>>
    /\ UNCHANGED <<config, thread, stop_event, exit_count, poll_count, last_pnl,
                   peak_loss, caller>>

\* One lookup of verify_exit_orders inside _trigger_exit; when it is the
\* last, _trigger_exit stamps the exit time and the iteration goes to its wait.
Lookup ==
    /\ pc = "lookup"
    /\ \E answer \in HistoryAnswers :
          LET f == LookupStep(ex, answer)
          IN  IF f.phase = "verified"
              THEN /\ last_exit_time' = ExitStamp(now, f)
                   /\ pc' = "wait"
                   /\ waits' = <<config.poll_interval>>
                   /\ ex' = NoFrame
                   /\ obs' = ExitDone(obs, f)
              ELSE /\ pc' = "lookup"
                   /\ ex' = f
                   /\ UNCHANGED <<last_exit_time, waits, obs>>
    /\ UNCHANGED <<config, now, thread, stop_event, exit_count, all_exit_results,
                   exited_symbols, poll_count, last_pnl, peak_loss, order_seq, caller>>

\* self._stop_event.wait(timeout): it returns at once when the event is set,
\* and after the timeout otherwise.
Wait ==
    /\ pc = "wait"
    /\ now' = IF stop_event THEN now ELSE now + Head(waits)
    /\ waits' = Tail(waits)
    /\ pc' = IF Tail(waits) = <<>> THEN "loop" ELSE "wait"
    /\ obs' = IF Tail(waits) = <<>> THEN NewObs("none") ELSE obs
    /\ UNCHANGED <<config, thread, stop_event, sessionVars, ex, order_seq, caller>>

Next ==
    \/ Start
    \/ Stop
    \/ StopReturn
    \/ BrokerCallOutlastsJoin
    \/ WaitCall
    \/ WaitReturn
    \/ LoopTop
    \/ Poll
    \/ Place
    \/ Lookup
    \/ Wait

Spec == Init /\ [][Next]_vars

\* The configurations of the runs started once: the thresholds of the loss
\* scenarios, and one that a loss of 5500 meets at a ratio of exactly 0.8.
OneRunConfigs ==
    [max_loss : MaxLosses \cup {6875}, poll_interval : {10},
     exchanges : {{"NFO", "BFO"}}, dry_run : BOOLEAN]

\* The monitor as constructed, with callers that start it once.
InitOneRun ==
    /\ config \in OneRunConfigs
    /\ now = 0
    /\ thread = "none"
    /\ stop_event = FALSE
    /\ exit_count = 0
    /\ all_exit_results = <<>>
    /\ exited_symbols = {}
    /\ last_exit_time = None
    /\ poll_count = 0
    /\ last_pnl = None
    /\ peak_loss = 0
    /\ pc = "idle"
    /\ waits = <<>>
    /\ ex = NoFrame
    /\ order_seq = 0
    /\ caller = [stop_join |-> None, waiting |-> FALSE, refused |-> FALSE,
                 starts |-> MaxStarts - 1]
    /\ obs = NewObs("none")

\* The worker thread is scheduled, its waits and sleeps time out, and every
\* call of the broker returns.
WorkerRuns ==
    /\ WF_vars(LoopTop)
    /\ WF_vars(Poll)
    /\ WF_vars(Place)
    /\ WF_vars(Lookup)
    /\ WF_vars(Wait)

SpecLive == InitOneRun /\ [][Next]_vars /\ WorkerRuns

\* The worker thread is scheduled and its waits time out, but a call of the
\* broker need not return; time passes, and a join that can return does.
SpecStop ==
    /\ InitOneRun /\ [][Next]_vars
    /\ WF_vars(LoopTop)
    /\ WF_vars(Wait)
    /\ WF_vars(BrokerCallOutlastsJoin)
    /\ WF_vars(StopReturn)

\* The polls a long run has made when it is looked at.
PollsBefore == DetailEvery - 2

\* A run that has polled PollsBefore times and found no position each time,
\* at the top of its loop; the clock counts from here, and the callers do
\* not start the monitor again.
InitLongRun ==
    /\ config \in Configs
    /\ now = 0
    /\ thread = "alive"
    /\ stop_event = FALSE
    /\ exit_count = 0
    /\ all_exit_results = <<>>
    /\ exited_symbols = {}
    /\ last_exit_time = None
    /\ poll_count = PollsBefore
    /\ last_pnl = None
    /\ peak_loss = 0
    /\ pc = "loop"
    /\ waits = <<>>
    /\ ex = NoFrame
    /\ order_seq = 0
    /\ caller = [stop_join |-> None, waiting |-> FALSE, refused |-> FALSE,
                 starts |-> MaxStarts]
    /\ obs = NewObs("none")

NextLongRun ==
    \/ Stop
    \/ StopReturn
    \/ BrokerCallOutlastsJoin
    \/ WaitCall
    \/ WaitReturn
    \/ LoopTop
    \/ Poll
    \/ Place
    \/ Lookup
    \/ Wait

SpecLongRun == InitLongRun /\ [][NextLongRun]_vars

(***************************************************************************)
(* SpecParse: the aggregation of _poll_positions, applied to any answer    *)
(* of kite.positions() and any configured set of exchanges.                *)
(***************************************************************************)
ExchangeSets == {{"NFO", "BFO"}, {"NFO"}, {"BFO", "NSE"}}

InitParse ==
    /\ \E exchanges \in ExchangeSets :
          config = [max_loss |-> 5000, poll_interval |-> 10, exchanges |-> exchanges,
                    dry_run |-> FALSE]
    /\ now = 0
    /\ thread = "none"
    /\ stop_event = FALSE
    /\ exit_count = 0
    /\ all_exit_results = <<>>
    /\ exited_symbols = {}
    /\ last_exit_time = None
    /\ poll_count = 0
    /\ last_pnl = None
    /\ peak_loss = 0
    /\ pc = "call_parse"
    /\ waits = <<>>
    /\ ex = NoFrame
    /\ order_seq = 0
    /\ caller = [stop_join |-> None, waiting |-> FALSE, refused |-> FALSE,
                 starts |-> 0]
    /\ \E net \in Snapshots : obs = [NewObs("parse") EXCEPT !.net = net]

\* positions = get_open_fno_positions(self.kite, config.exchanges), and
\* total_pnl = calculate_total_pnl(positions) when there are positions.
Aggregate ==
    /\ pc = "call_parse"
    /\ LET positions == get_open_fno_positions(obs.net, config.exchanges)
       IN  obs' = [obs EXCEPT !.fetched = TRUE, !.positions = positions,
                              !.total_pnl = IF positions = <<>> THEN None
                                            ELSE Some(calculate_total_pnl(positions))]
    /\ pc' = "parsed"
    /\ UNCHANGED <<config, now, thread, stop_event, sessionVars, waits, ex, order_seq,
                   caller>>

NextParse == Aggregate

SpecParse == InitParse /\ [][NextParse]_vars

(***************************************************************************)
(* Claims about the executor, checked under SpecExec                       *)
(***************************************************************************)
\* The trace of the exit_all_positions call, during it and after it.
ExitTrace == IF ex.phase \in {"place", "placed"} THEN ex.trace ELSE obs.exit_trace

\* The kite.place_order calls made for position i, in order.
PlaceCalls(i) ==
    SelectSeq(ExitTrace, LAMBDA e : e[1] = "place_order" /\ e[2] = i)

\* The broker calls and sleeps made for position i, in order.
PlaceSegment(i) ==
    SelectSeq(ExitTrace, LAMBDA e : e[1] \in {"place_order", "sleep"} /\ e[2] = i)

BrokerCallsIn(trace) ==
    SelectSeq(trace, LAMBDA e : e[1] \in {"place_order", "order_history"})

\* place_exit_order has returned for position i.
Exited(i) == i \in 1..Len(ex.results)

\* C3: every result's closing transaction is SELL for a long position and BUY
\* for a short one, every order sent to the broker carries that transaction,
\* and a position of quantity 0 gets a failed result with a non-empty error
\* and no kite.place_order call, in dry-run and in live mode.
C3_CloseTransaction ==
    /\ \A i \in 1..Len(ex.results) :
          LET p == ex.positions[i]
              r == ex.results[i]
          IN  /\ p.quantity > 0 => r.transaction_type = "SELL"
              /\ p.quantity < 0 => r.transaction_type = "BUY"
              /\ p.quantity = 0 => /\ ~r.success
                                   /\ r.error # ""
                                   /\ PlaceCalls(i) = <<>>
    /\ \A k \in 1..Len(ExitTrace) :
          ExitTrace[k][1] = "place_order" =>
             LET p == ex.positions[ExitTrace[k][2]]
             IN  /\ p.quantity # 0
                 /\ ExitTrace[k][3].transaction_type =
                       (IF p.quantity > 0 THEN "SELL" ELSE "BUY")

\* C3 witness: a live batch has returned with a closed position, failed with
\* no broker call, and a long position sold at the broker.
C3_Witness ==
    /\ ex.phase = "placed"
    /\ ~obs.dry_run
    /\ \E i, j \in 1..Len(ex.results) :
          /\ ex.positions[i].quantity = 0
          /\ ~ex.results[i].success
          /\ ex.positions[j].quantity > 0
          /\ ex.results[j].success
          /\ ex.results[j].transaction_type = "SELL"

\* C5: place_exit_order calls kite.place_order at most 3 times for a
\* position, makes no call after a successful one, and when the first two
\* calls fail and the third succeeds its result is a success carrying the
\* order id the third call returned.
C5_AtMostThreeAttempts ==
    \A i \in 1..Len(ex.positions) :
       LET calls == PlaceCalls(i)
       IN  /\ Len(calls) <= 3
           /\ \A k \in 1..(Len(calls) - 1) : calls[k][4] # "ok"
           /\ (Exited(i) /\ Len(calls) = 3 /\ calls[3][4] = "ok") =>
                 /\ ex.results[i].success
                 /\ ex.results[i].order_id = calls[3][5]
                 /\ calls[3][5] # None

\* C5 witness: a position's order failed twice and was accepted the third time.
C5_Witness ==
    \E i \in 1..Len(ex.results) :
       /\ Len(PlaceCalls(i)) = 3
       /\ PlaceCalls(i)[3][4] = "ok"
       /\ ex.results[i].success

\* All three attempts for position i have failed.
AllAttemptsFailed(i) ==
    /\ Exited(i)
    /\ Len(PlaceCalls(i)) = 3
    /\ \A k \in 1..3 : PlaceCalls(i)[k][4] # "ok"

\* C6: when all 3 attempts fail the result is a failure with no order id
\* whose error is the third attempt's, and place_exit_order has slept 1
\* second after the first and after the second attempt and not after the third.
C6_ExhaustedRetries ==
    \A i \in 1..Len(ex.results) :
       AllAttemptsFailed(i) =>
          LET calls == PlaceCalls(i)
          IN  /\ ~ex.results[i].success
              /\ ex.results[i].order_id = None
              /\ ex.results[i].error = calls[3][4]
              /\ PlaceSegment(i) = << calls[1], <<"sleep", i, 1>>,
                                      calls[2], <<"sleep", i, 1>>, calls[3] >>

\* C6 witness: three attempts have failed, the last with another error than
\* the first.
C6_Witness ==
    \E i \in 1..Len(ex.results) :
       /\ AllAttemptsFailed(i)
       /\ PlaceCalls(i)[1][4] # PlaceCalls(i)[3][4]

\* C7 as stated: in dry-run mode every position gets a success result with
\* the DRY_RUN order id, and no broker call is made.
C7_DryRunAllSucceed ==
    obs.dry_run =>
       /\ \A i \in 1..Len(ex.results) :
             ex.results[i].success /\ ex.results[i].order_id = DRY_RUN
       /\ BrokerCallsIn(ExitTrace) = <<>>

\* C7 amended: in dry-run mode every position of non-zero quantity gets a
\* success result with the DRY_RUN order id, a position of quantity 0 gets the
\* failed result, exit_all_positions makes no broker call, and neither does
\* verify_exit_orders when it is called in dry-run mode too.
C7_DryRunNonZeroSucceed ==
    obs.dry_run =>
       /\ \A i \in 1..Len(ex.results) :
             IF ex.positions[i].quantity # 0
             THEN ex.results[i].success /\ ex.results[i].order_id = DRY_RUN
             ELSE ~ex.results[i].success /\ ex.results[i].order_id = None
       /\ BrokerCallsIn(ExitTrace) = <<>>
       /\ order_seq = 0
       /\ obs.verify_dry_run => BrokerCallsIn(ex.trace) = <<>> /\ now = 0

\* C7 witness: a dry run of two open positions has been exited and verified.
C7_Witness ==
    /\ obs.dry_run
    /\ obs.verify_dry_run
    /\ pc = "returned"
    /\ Len(ex.results) = 2
    /\ \A i \in 1..2 : ex.positions[i].quantity # 0 /\ ex.results[i].order_id = DRY_RUN

\* C8: exit_all_positions collects one result per position, in the order of
\* the positions, each naming its position's symbol and exchange; once it has
\* returned there is a result for every position, and in live mode every open
\* position has had an order attempt, whatever became of the positions before it.
C8_OneResultPerPosition ==
    /\ Len(ex.results) <= Len(ex.positions)
    /\ ex.phase = "place" => Len(ex.results) = ex.idx - 1
    /\ ex.phase \in {"placed", "lookup", "verified"} =>
          /\ Len(ex.results) = Len(ex.positions)
          /\ ~obs.dry_run =>
                \A j \in 1..Len(ex.positions) :
                   ex.positions[j].quantity # 0 => PlaceCalls(j) # <<>>
    /\ \A i \in 1..Len(ex.results) :
          /\ ex.results[i].tradingsymbol = ex.positions[i].tradingsymbol
          /\ ex.results[i].exchange = ex.positions[i].exchange

\* C8 witness: the first position's order failed for good and the second
\* position's order was still placed.
C8_Witness ==
    /\ ex.phase = "placed"
    /\ Len(ex.results) = 2
    /\ AllAttemptsFailed(1)
    /\ ex.results[2].success
    /\ ex.positions[1].tradingsymbol # ex.positions[2].tradingsymbol

\* The results verify_exit_orders checks.
Checked == SelectSeq(ex.results, LAMBDA r : r.success /\ r.order_id # None)

\* The latest entry of the status history of lookup k is COMPLETE.
LatestIsComplete(k) ==
    LET answer == ex.seen[k]
    IN  /\ answer[1] = "return"
        /\ answer[2] # <<>>
        /\ "status" \in DOMAIN answer[2][Len(answer[2])]
        /\ answer[2][Len(answer[2])].status = "COMPLETE"

\* C9 as stated: a live verify_exit_orders returns True exactly when there
\* is a successful result to check and the latest status of every checked
\* order is COMPLETE.
C9_TrueIffAllComplete ==
    (pc = "returned" /\ ~obs.verify_dry_run) =>
       (ex.ret = Some(TRUE)
          <=> /\ Checked # <<>>
              /\ Len(ex.seen) = Len(Checked)
              /\ \A k \in 1..Len(ex.seen) : LatestIsComplete(k))

\* C10: a live verify_exit_orders given no successful result with an order
\* id returns False, makes no order-status lookup and does not sleep.
C10_NothingToVerify ==
    (pc = "returned" /\ ~obs.verify_dry_run /\ Checked = <<>>) =>
       /\ ex.ret = Some(FALSE)
       /\ ex.seen = <<>>
       /\ ex.trace = <<>>

\* C10 witness: verify_exit_orders has returned for a live batch whose
\* orders all failed.
C10_Witness ==
    /\ pc = "returned"
    /\ ~obs.verify_dry_run
    /\ ex.results # <<>>
    /\ Checked = <<>>
    /\ \E i \in 1..Len(ex.results) : AllAttemptsFailed(i)

\* The order-status lookups of the call, in the order they were made.
LookupsMade == SelectSeq(ex.trace, LAMBDA e : e[1] = "order_history")

\* C11: a lookup that raises does not end a live verify_exit_orders: when it
\* returns, one lookup has been made for every successful result with an
\* order id, in the order of the results, and it returns False if any of
\* the lookups raised.
C11_LookupFailureGoesOn ==
    (pc = "returned" /\ ~obs.verify_dry_run /\ Checked # <<>>) =>
       /\ Len(LookupsMade) = Len(Checked)
       /\ Len(ex.seen) = Len(Checked)
       /\ \A k \in 1..Len(LookupsMade) : LookupsMade[k][3] = Checked[k].order_id
       /\ (\E k \in 1..Len(ex.seen) : ex.seen[k][1] = "raise") => ex.ret = Some(FALSE)

\* C11 witness: of two orders placed live, the lookup of the first raised,
\* the second was then looked up and found COMPLETE, and False was returned.
C11_Witness ==
    /\ pc = "returned"
    /\ ~obs.dry_run
    /\ ~obs.verify_dry_run
    /\ Len(Checked) = 2
    /\ Len(ex.seen) = 2
    /\ ex.seen[1][1] = "raise"
    /\ LatestIsComplete(2)
    /\ LookupsMade[2][3] = Checked[2].order_id
    /\ ex.ret = Some(FALSE)

(***************************************************************************)
(* Claims about the aggregation, checked under SpecParse                   *)
(***************************************************************************)
\* Entry i of the snapshot is on a configured exchange and has a quantity
\* other than 0.
Counted(i) ==
    /\ "exchange" \in DOMAIN obs.net[i]
    /\ obs.net[i].exchange \in config.exchanges
    /\ "quantity" \in DOMAIN obs.net[i]
    /\ obs.net[i].quantity # 0

\* The sum of pnl over the counted entries among the first n.
RECURSIVE CountedPnl(_)
CountedPnl(n) ==
    IF n = 0 THEN 0
    ELSE CountedPnl(n - 1) + (IF Counted(n) THEN obs.net[n].pnl ELSE 0)

\* C4: the aggregate P&L of a poll is the sum of pnl over the snapshot's
\* entries that are on a configured exchange with a quantity other than 0,
\* the filtered list holds exactly those entries, and no aggregate is
\* computed when there is none.
C4_AggregatePnl ==
    pc = "parsed" =>
       LET counted == {i \in 1..Len(obs.net) : Counted(i)}
       IN  /\ Len(obs.positions) = Cardinality(counted)
           /\ counted = {} <=> obs.total_pnl = None
           /\ counted # {} => obs.total_pnl = Some(CountedPnl(Len(obs.net)))
           /\ \A k \in 1..Len(obs.positions) :
                 /\ obs.positions[k].quantity # 0
                 /\ obs.positions[k].exchange \in config.exchanges

\* C4 witness: a snapshot of an open leg on a configured exchange and a leg
\* with a loss that is closed or on another exchange has been aggregated to
\* the first leg's pnl.
C4_Witness ==
    /\ pc = "parsed"
    /\ Len(obs.net) = 2
    /\ \E i, j \in 1..2 :
          /\ Counted(i)
          /\ ~Counted(j)
          /\ obs.net[j].pnl < 0
          /\ obs.total_pnl = Some(obs.net[i].pnl)

(***************************************************************************)
(* Claims about the monitor loop, checked under Spec                       *)
(***************************************************************************)
\* The worker is inside _trigger_exit, or has finished it in this iteration.
ExitPathEntered == pc \in {"place", "lookup"} \/ obs.exit_done

\* The iteration has fetched a snapshot whose filtered list is not empty.
PolledPositions == obs.kind = "poll" /\ obs.fetched /\ obs.positions # <<>>

\* C1: in a poll whose filtered list is not empty the exit path is entered
\* exactly when the aggregate P&L is negative and no smaller in size than
\* max_loss; in every other such poll no order is placed, the exit count and
\* the exit time stay as they were and the loop goes to its wait, out of cooldown.
C1_ExitIffBreach ==
    PolledPositions =>
       LET pnl == TheValue(last_pnl)
           breach == pnl < 0 /\ -pnl >= config.max_loss
       IN  /\ last_pnl # None
           /\ pnl = CountedPnl(Len(obs.net))
           /\ ExitPathEntered <=> breach
           /\ obs.exit_invoked <=> breach
           /\ breach => exit_count >= 1
           /\ ~breach => /\ pc = "wait"
                         /\ ex = NoFrame
                         /\ obs.place_calls = 0
                         /\ ~InCooldown
                         /\ thread = "alive"

\* C1 witness: the loss scenario. X long 50 at -3000 and Y short 25 at -2500
\* against a threshold of 5000 have been exited, live, by a SELL of 50 X and
\* a BUY of 25 Y.
C1_Witness ==
    /\ PolledPositions
    /\ obs.exit_done
    /\ ~config.dry_run
    /\ config.max_loss = 5000
    /\ last_pnl = Some(-5500)
    /\ Len(all_exit_results) = 2
    /\ all_exit_results[1].tradingsymbol = "X"
    /\ all_exit_results[1].transaction_type = "SELL"
    /\ all_exit_results[1].quantity = 50
    /\ all_exit_results[2].tradingsymbol = "Y"
    /\ all_exit_results[2].transaction_type = "BUY"
    /\ all_exit_results[2].quantity = 25

\* The worker is at the top of the loop, not stopped, before market close,
\* after an exit.
TickAfterExit ==
    /\ pc = "loop"
    /\ ~stop_event
    /\ now < CloseTime
    /\ last_exit_time # None

\* C2: after an exit, an iteration that starts less than 30 seconds after
\* the exit time goes to a wait of 1 second and back to the top of the loop
\* with no fetch and the session unchanged (the poll count too); an
\* iteration that starts 30 seconds after it or more enters _poll_positions,
\* which counts the poll and fetches.
C2_CooldownSkipsPolling ==
    [][ /\ (TickAfterExit /\ now - TheValue(last_exit_time) < 30 /\ pc' # pc) =>
              /\ pc' = "wait"
              /\ waits' = <<1>>
              /\ obs'.kind = "cooldown"
              /\ ~obs'.fetched
              /\ UNCHANGED sessionVars
        /\ (pc = "wait" /\ obs.kind = "cooldown") =>
              /\ pc' \in {"wait", "loop"}
              /\ UNCHANGED sessionVars
              /\ ~obs'.fetched
        /\ (TickAfterExit /\ now - TheValue(last_exit_time) >= 30 /\ pc' # pc) =>
              pc' = "poll"
        /\ (pc = "poll" /\ pc' # pc) =>
              /\ poll_count' = poll_count + 1
              /\ obs'.fetched
      ]_vars

\* C2 witness: the first poll after a cooldown, 30 seconds after the exit.
C2_Witness ==
    /\ pc = "poll"
    /\ exit_count = 1
    /\ last_exit_time # None
    /\ now - TheValue(last_exit_time) = 30
    /\ poll_count = 1
\* C12: an iteration that starts at or after the market-close time ends the
\* loop: the worker leaves the loop and ends, with no fetch, no exit and no
\* order, the session as it was, whatever the last P&L and whether or not an
\* exit cooldown is running.
C12_MarketCloseStops ==
    [][ (pc = "loop" /\ now >= CloseTime /\ pc' # pc) =>
           /\ pc' = "ended"
           /\ thread' = "dead"
           /\ ~obs'.fetched
           /\ ~obs'.exit_invoked
           /\ obs'.summary # None
           /\ UNCHANGED <<sessionVars, ex, order_seq>>
      ]_vars

\* C12 witness: the market has closed on a run whose last P&L, -2500 against
\* a threshold of 5000, was no breach: the loop has ended with no exit and no
\* order.
C12_Witness ==
    /\ pc = "ended"
    /\ obs.kind = "closed"
    /\ ~stop_event
    /\ now >= CloseTime
    /\ config.max_loss = 5000
    /\ last_pnl = Some(-2500)
    /\ exit_count = 0
    /\ order_seq = 0

\* The exception is of a token kind, or its text speaks of a token.
CredentialFailure(e) ==
    \/ e.name = "TokenException"
    \/ e.text \in {"Incorrect api_key or access_token", "Invalid token"}

\* C13: a fetch that raises sets the stop event exactly when the failure is
\* a credential failure. With the stop event set the worker goes from its
\* wait to the top of the loop and ends there, without another fetch; after
\* any other failure the worker is alive, waits, and the next iteration
\* that finds no stop, no market close and no cooldown polls.
C13_OnlyCredentialFailureStops ==
    [][ /\ (pc = "poll" /\ pc' # pc /\ obs'.error # None) =>
              /\ pc' = "wait"
              /\ thread' = "alive"
              /\ stop_event' = (stop_event \/ CredentialFailure(TheValue(obs'.error)))
              /\ UNCHANGED <<exit_count, all_exit_results, exited_symbols,
                             last_exit_time, last_pnl, peak_loss, ex, order_seq>>
        /\ (pc \in {"wait", "loop"} /\ stop_event /\ pc' # pc) =>
              /\ pc' \in {"wait", "loop", "ended"}
              /\ pc = "loop" => pc' = "ended"
              /\ UNCHANGED sessionVars
        /\ (pc = "wait" /\ obs.error # None /\ pc' # pc) => pc' = "loop"
        /\ (pc = "loop" /\ ~stop_event /\ now < CloseTime /\ pc' # pc
              /\ (last_exit_time = None \/ now - TheValue(last_exit_time) >= 30)) =>
              pc' = "poll"
      ]_vars

\* C13 witness: the first fetch of the first run failed with a network
\* error; after the two waits that follow the failure the worker is
\* entering its second poll.
C13_Witness ==
    /\ pc = "poll"
    /\ caller.starts = 1
    /\ ~stop_event
    /\ poll_count = 1
    /\ last_pnl = None
    /\ now = 20
(***************************************************************************)
(* Claims about termination, checked under SpecLive and SpecStop           *)
(***************************************************************************)
\* C14: once the stop event is set while the worker is alive, the worker
\* ends, and it is the test of the stop event that ends the loop. A worker
\* that is at the top of the loop or in one of its waits when the event is
\* set starts no other poll and no other cooldown wait: its waits return at
\* once and the next test of the loop condition ends it.
C14_StopEndsTheLoop ==
    /\ [][ (stop_event /\ thread = "alive" /\ pc \in {"loop", "wait"}) =>
              /\ poll_count' = poll_count
              /\ now' = now
              /\ pc = "loop" => pc' \in {"loop", "ended"}
              /\ pc = "wait" => pc' \in {"wait", "loop"}
         ]_vars
    /\ (stop_event /\ thread = "alive") ~> (thread = "dead" /\ obs.kind = "stopped")

\* C14 witness: stop() was called during an exit cooldown, and the worker
\* has ended on the stop event, before the market close, with stop() still
\* in its join.
C14_Witness ==
    /\ pc = "ended"
    /\ thread = "dead"
    /\ obs.kind = "stopped"
    /\ caller.stop_join # None
    /\ now < CloseTime
    /\ last_exit_time # None
    /\ now - TheValue(last_exit_time) < 30
\* stop() is in its join.
Joining == caller.stop_join # None

\* C15: stop() returns. With no thread it does not join at all; a join
\* begins with a timeout of 30 seconds, can return as soon as that time has
\* passed whatever the worker is doing, and does end, although the worker
\* may be in a call of the broker that never returns (for the joins the
\* model follows to their timeout).
C15_StopReturns ==
    /\ [][ /\ thread = "none" => ~Joining'
           /\ (~Joining /\ Joining') =>
                 /\ stop_event'
                 /\ TheValue(caller'.stop_join) = now + 30
         ]_vars
    /\ []((Joining /\ now >= TheValue(caller.stop_join)) => ENABLED StopReturn)
    /\ (Joining /\ TheValue(caller.stop_join) <= MaxClock) ~> ~Joining

\* C15 witness: stop() was called at time 0 with the worker in its first
\* fetch; 30 seconds later the fetch has not returned, and stop() has.
C15_Witness ==
    /\ thread = "alive"
    /\ pc = "poll"
    /\ poll_count = 0
    /\ stop_event
    /\ ~Joining
    /\ now = 30
(***************************************************************************)
(* Claims about the session, checked under Spec                            *)
(***************************************************************************)
\* start() launches a worker in this step.
Launches == thread # "alive" /\ thread' = "alive"

\* C16 as stated: a start() that launches a worker leaves the whole session
\* at its initial values: no poll counted, no P&L observed, peak loss 0, no
\* exit event, no exited symbol, no exit time, no exit result, and the stop
\* event clear.
C16_StartResetsSession ==
    [][ Launches =>
           /\ poll_count' = 0
           /\ last_pnl' = None
           /\ peak_loss' = 0
           /\ exit_count' = 0
           /\ exited_symbols' = {}
           /\ last_exit_time' = None
           /\ all_exit_results' = <<>>
           /\ ~stop_event'
      ]_vars

\* The poll of this step has found open positions at a loss no smaller than
\* max_loss.
DetectsBreach ==
    /\ pc = "poll"
    /\ pc' # pc
    /\ obs'.error = None
    /\ obs'.positions # <<>>
    /\ TheValue(last_pnl') < 0
    /\ -TheValue(last_pnl') >= config.max_loss

\* C17: within a run the exit count goes up by exactly 1 in every poll that
\* detects a breach, and no other step of the worker or of a caller changes
\* it: the orders and their verification, whatever they give, leave it alone.
C17_ExitCountCountsBreaches ==
    [][ /\ DetectsBreach => exit_count' = exit_count + 1
        /\ (~DetectsBreach /\ ~Launches) => exit_count' = exit_count
      ]_vars

\* C17 witness: the second exit of a live run is over; one of its orders
\* has failed and its verification has returned False.
C17_Witness ==
    /\ exit_count = 2
    /\ ~config.dry_run
    /\ obs.exit_done
    /\ Len(all_exit_results) = 4
    /\ ~all_exit_results[4].success
    /\ obs.verified = Some(FALSE)

\* The poll of this step has found open positions.
ObservesPnl ==
    /\ pc = "poll"
    /\ pc' # pc
    /\ obs'.error = None
    /\ obs'.positions # <<>>

\* C18: the peak loss is never above 0; within a run no step raises it; a
\* poll that finds open positions leaves it at the smaller of what it was
\* and the aggregate P&L of the poll, and no other step changes it (so that
\* it is the least of 0 and the P&L values the run has observed).
C18_PeakLossIsTheMinimum ==
    /\ [](peak_loss <= 0)
    /\ [][ /\ ~Launches => peak_loss' <= peak_loss
           /\ ObservesPnl =>
                 peak_loss' = IF TheValue(last_pnl') <= peak_loss
                              THEN TheValue(last_pnl') ELSE peak_loss
           /\ (~ObservesPnl /\ ~Launches) => peak_loss' = peak_loss
         ]_vars

\* C18 witness: a run has observed -5500 and then -2500: the peak loss is
\* still -5500.
C18_Witness ==
    /\ pc = "wait"
    /\ obs.fetched
    /\ last_pnl = Some(-2500)
    /\ peak_loss = -5500
    /\ poll_count = 2

\* The summary is printed in this step.
EmitsSummary == obs.summary = None /\ obs'.summary # None

\* C19: the step in which the worker ends is the step in which the summary
\* is printed, and there is no other: the loop has then ended on the stop
\* event or on the market close, the summary gives the polls and the exit
\* events of the run as they stand, and is_running is false from then on
\* until another start.
C19_SummaryOnceAtTheEnd ==
    /\ [][ /\ EmitsSummary <=> (thread = "alive" /\ thread' = "dead")
           /\ EmitsSummary =>
                 /\ pc = "loop"
                 /\ pc' = "ended"
                 /\ stop_event \/ now >= CloseTime
                 /\ UNCHANGED sessionVars
                 /\ TheValue(obs'.summary).polls = poll_count
                 /\ TheValue(obs'.summary).last_pnl = last_pnl
                 /\ TheValue(obs'.summary).peak_loss = peak_loss
                 /\ TheValue(obs'.summary).threshold = -config.max_loss
                 /\ TheValue(obs'.summary).exit_events = exit_count
                 /\ ~is_running'
           /\ (thread = "dead" /\ ~Launches) => (thread' = "dead" /\ UNCHANGED sessionVars)
         ]_vars
    /\ [](thread = "dead" => (pc = "ended" /\ obs.summary # None))

\* C19 witness: a run that made two exits, of four orders, has ended on the
\* stop event, and its summary reports 2 polls and 2 exit events.
C19_Witness ==
    /\ thread = "dead"
    /\ obs.kind = "stopped"
    /\ obs.summary # None
    /\ TheValue(obs.summary).polls = 2
    /\ TheValue(obs.summary).exit_events = 2
    /\ Len(all_exit_results) = 4

\* The fetch of this step has returned a snapshot with no entry on a
\* configured exchange with a quantity other than 0.
FindsNoPosition ==
    /\ pc = "poll"
    /\ pc' # pc
    /\ obs'.error = None
    /\ \A i \in 1..Len(obs'.net) :
          ~ /\ "exchange" \in DOMAIN obs'.net[i]
            /\ obs'.net[i].exchange \in config.exchanges
            /\ "quantity" \in DOMAIN obs'.net[i]
            /\ obs'.net[i].quantity # 0

\* C20: a poll that finds no open position counts the poll and nothing
\* else: no exit, no order, the exit count, the last P&L, the peak loss and
\* the rest of the session as they were, and the worker goes to the wait that
\* ends the iteration.
C20_EmptyPollOnlyCounts ==
    [][ FindsNoPosition =>
           /\ poll_count' = poll_count + 1
           /\ UNCHANGED <<exit_count, last_pnl, peak_loss, all_exit_results,
                          exited_symbols, last_exit_time, stop_event, order_seq, now>>
           /\ obs'.positions = <<>>
           /\ ~obs'.exit_invoked
           /\ ex' = NoFrame
           /\ pc' = "wait"
           /\ waits' = <<config.poll_interval>>
           /\ thread' = "alive"
      ]_vars

\* C20 witness: after a poll that observed -2500, a poll has found only a
\* closed leg and a leg on another exchange, both at a loss: the last P&L
\* and the peak loss are still -2500.
C20_Witness ==
    /\ pc = "wait"
    /\ obs.fetched
    /\ obs.net = <<ClosedX, OtherVenueY>>
    /\ obs.positions = <<>>
    /\ poll_count = 2
    /\ last_pnl = Some(-2500)
    /\ peak_loss = -2500
    /\ exit_count = 0
(***************************************************************************)
(* Claims about the filter on the exchange, checked under SpecParse        *)
(***************************************************************************)
\* The exchange code in upper case, for the codes the snapshots hold.
UpperCase(code) ==
    CASE code = "nfo" -> "NFO"
      [] code = "bfo" -> "BFO"
      [] code = "nse" -> "NSE"
      [] OTHER -> code

\* Entry i of the snapshot has a quantity other than 0 and is, up to letter
\* case, on a configured exchange.
CountedUpToCase(i) ==
    /\ "exchange" \in DOMAIN obs.net[i]
    /\ UpperCase(obs.net[i].exchange) \in config.exchanges
    /\ "quantity" \in DOMAIN obs.net[i]
    /\ obs.net[i].quantity # 0

\* The sum of pnl over the entries counted up to letter case among the first n.
RECURSIVE CountedPnlUpToCase(_)
CountedPnlUpToCase(n) ==
    IF n = 0 THEN 0
    ELSE CountedPnlUpToCase(n - 1) + (IF CountedUpToCase(n) THEN obs.net[n].pnl ELSE 0)

\* C21 as stated: an entry whose exchange equals a configured one up to
\* letter case is in the filtered list and in the aggregate P&L.
C21_VenueUpToCase ==
    pc = "parsed" =>
       LET counted == {i \in 1..Len(obs.net) : CountedUpToCase(i)}
       IN  /\ Len(obs.positions) = Cardinality(counted)
           /\ counted # {} => obs.total_pnl = Some(CountedPnlUpToCase(Len(obs.net)))
(***************************************************************************)
(* Claims about the callers, checked under Spec                            *)
(***************************************************************************)
\* C22: wait() does not set the stop event and writes nothing of the session
\* or of the worker; it returns only when the worker has left the loop and
\* ended, so that it stays blocked for as long as the worker is alive.
C22_WaitOnlyWaits ==
    [][ /\ caller'.waiting # caller.waiting =>
              UNCHANGED <<stop_event, sessionVars, thread, pc, waits, now, ex, order_seq>>
        /\ (caller.waiting /\ ~caller'.waiting) => (thread = "dead" /\ pc = "ended")
        /\ (caller.waiting /\ thread = "alive") => caller'.waiting
      ]_vars

\* C22 witness: wait() is blocked on a worker that has made three polls and
\* has not been asked to stop.
C22_Witness ==
    /\ caller.waiting
    /\ thread = "alive"
    /\ ~stop_event
    /\ poll_count = 3

\* A step of one of the callers' operations: start(), stop() or wait().
CallerStep ==
    \/ caller' # caller
    \/ thread = "none" /\ ~stop_event /\ stop_event'

\* C23 as stated: no operation of a caller writes a field of the session.
C23_CallersNeverWrite ==
    [][ CallerStep => UNCHANGED sessionVars ]_vars

\* C23: stop() and wait(), and a start() that is refused, write no field of
\* the session; a start() writes them only when it launches a worker, with no
\* worker alive; while a worker is alive the session is written by the
\* worker's steps only.
C23_CallersWriteOnlyAtLaunch ==
    [][ /\ (CallerStep /\ ~Launches) => UNCHANGED sessionVars
        /\ (thread = "alive" /\ sessionVars' # sessionVars) =>
              /\ caller' = caller
              /\ pc \in {"poll", "place", "lookup"}
      ]_vars

\* C23 witness: the second start() has launched a worker and reset the
\* session of a run that had placed orders.
C23_Witness ==
    /\ caller.starts = 2
    /\ obs.kind = "started"
    /\ order_seq > 0
    /\ exit_count = 0
    /\ all_exit_results = <<>>
    /\ exited_symbols = {}
(***************************************************************************)
(* Claims about the exit, checked under SpecLive                           *)
(***************************************************************************)
\* Some result of the batch is a success with an order id.
BatchHasOrders(results, from) ==
    \E k \in (from + 1)..Len(results) : results[k].success /\ results[k].order_id # None

\* C24: the steps of an exit, in their order. The poll that detects the
\* breach counts the exit and nothing else; while the orders are placed the
\* results, the exited symbols and the exit time stay as they were; the step
\* that ends the placement appends one result per position of the poll and
\* adds their symbols; verify_exit_orders runs after that, in a live run only
\* and with every position attempted; the exit time is stamped last, with the
\* time at the end of the verification, in the step that ends the exit.
C24_ExitStepsInOrder ==
    [][ /\ DetectsBreach =>
              /\ exit_count' = exit_count + 1
              /\ pc' = "place"
              /\ UNCHANGED <<all_exit_results, exited_symbols, last_exit_time, order_seq>>
        /\ (pc = "place" /\ pc' = "place") =>
              UNCHANGED <<exit_count, all_exit_results, exited_symbols, last_exit_time>>
        /\ (pc = "place" /\ pc' # "place") =>
              /\ exit_count' = exit_count
              /\ Len(all_exit_results') = Len(all_exit_results) + Len(obs.positions)
              /\ \A k \in 1..Len(all_exit_results) :
                    all_exit_results'[k] = all_exit_results[k]
              /\ \A k \in 1..Len(obs.positions) :
                    all_exit_results'[Len(all_exit_results) + k].tradingsymbol
                       = obs.positions[k].tradingsymbol
              /\ exited_symbols' = exited_symbols
                    \cup {obs.positions[k].tradingsymbol : k \in 1..Len(obs.positions)}
              /\ pc' = "lookup" <=>
                    (~config.dry_run
                       /\ BatchHasOrders(all_exit_results', Len(all_exit_results)))
              /\ pc' = "lookup" => last_exit_time' = last_exit_time
              /\ pc' # "lookup" => pc' = "wait"
        /\ pc = "lookup" =>
              /\ ~config.dry_run
              /\ UNCHANGED <<exit_count, all_exit_results, exited_symbols>>
              /\ pc' \in {"lookup", "wait"}
              /\ pc' = "lookup" => last_exit_time' = last_exit_time
        /\ (pc \in {"place", "lookup"} /\ pc' = "wait") =>
              /\ last_exit_time' = Some(now')
              /\ obs'.exit_done
              /\ config.dry_run <=> obs'.verified = None
              /\ config.dry_run => obs'.lookups = 0
        /\ (last_exit_time' # last_exit_time /\ ~Launches) =>
              (pc \in {"place", "lookup"} /\ pc' = "wait")
      ]_vars

\* C24 witness: a live exit of two positions is over: an attempt failed and
\* was retried, both orders were then looked up, and the exit time is the
\* time after the retry sleep and the settle sleep.
C24_Witness ==
    /\ obs.exit_done
    /\ ~config.dry_run
    /\ poll_count = 1
    /\ obs.place_calls = 3
    /\ obs.lookups = 2
    /\ now = 3
    /\ last_exit_time = Some(3)
    /\ exit_count = 1
    /\ exited_symbols = {"X", "Y"}
\* C25: the orders and their verification do not decide what the loop does
\* next. No step of an exit sets the stop event or ends the worker; the only
\* step of the worker that sets the stop event is a fetch that fails with a
\* credential failure; an exit that is over, whatever its orders and its
\* verification gave, leaves the worker alive in the wait of its iteration
\* with the cooldown running from that instant; and from there the worker
\* polls again unless it is stopped or the market closes.
C25_OrderFailuresKeepTheLoop ==
    /\ [][ /\ pc \in {"place", "lookup"} =>
                 /\ thread' = "alive"
                 /\ pc' \in {"place", "lookup", "wait"}
                 /\ caller' = caller => stop_event' = stop_event
           /\ (~stop_event /\ stop_event' /\ caller' = caller /\ thread = "alive") =>
                 /\ pc = "poll"
                 /\ obs'.error # None
                 /\ CredentialFailure(TheValue(obs'.error))
         ]_vars
    /\ [](obs.exit_done =>
             /\ pc = "wait"
             /\ thread = "alive"
             /\ last_exit_time = Some(now))
    /\ obs.exit_done ~> (pc = "poll" \/ stop_event \/ now >= CloseTime)

\* C25 witness: an exit is over whose orders have all failed, three times
\* each, with a credential error of the broker, and whose verification has
\* returned False: the worker is alive and has not been stopped.
C25_Witness ==
    /\ obs.exit_done
    /\ ~config.dry_run
    /\ obs.place_calls = 6
    /\ Len(all_exit_results) = 2
    /\ \A k \in 1..2 :
          /\ ~all_exit_results[k].success
          /\ all_exit_results[k].error = "Incorrect api_key or access_token"
    /\ obs.verified = Some(FALSE)
    /\ ~stop_event
    /\ thread = "alive"

OrdersAmongLast(results, n) ==
    Cardinality({k \in (Len(results) - n + 1)..Len(results) :
                    results[k].success /\ results[k].order_id # None})

\* C27: the stop event does not cut an exit short. The worker ends at the
\* top of the loop and nowhere else; inside an exit it stays alive and in
\* the exit until the exit is over; the placement ends with a result for
\* every position of the poll, and a live exit ends with a lookup made for
\* every order placed, whether or not stop() has been called meanwhile.
C27_StopDoesNotInterruptExit ==
    [][ /\ (thread = "alive" /\ thread' = "dead") => pc = "loop"
        /\ pc \in {"place", "lookup"} =>
              /\ thread' = "alive"
              /\ pc' \in {"place", "lookup", "wait"}
        /\ (pc = "place" /\ pc' # "place") =>
              Len(all_exit_results') = Len(all_exit_results) + Len(obs.positions)
        /\ (pc \in {"place", "lookup"} /\ pc' = "wait" /\ ~config.dry_run) =>
              obs'.lookups = OrdersAmongLast(all_exit_results', Len(obs.positions))
      ]_vars

\* C27 witness: stop() was called at time 1, between the first attempt of
\* the first exit and its retry; the exit has gone on to place both orders
\* and look both up, and the worker is still alive, in its wait.
C27_Witness ==
    /\ obs.exit_done
    /\ ~config.dry_run
    /\ stop_event
    /\ caller.stop_join = Some(31)
    /\ poll_count = 1
    /\ last_exit_time = Some(3)
    /\ Len(all_exit_results) = 2
    /\ obs.lookups = 2
    /\ thread = "alive"
\* The band of a P&L against a threshold: the ratio is |pnl| / threshold for
\* a loss and 0 otherwise, compared with 1.0, 0.8 and 0.5.
ExpectedBand(pnl, threshold) ==
    LET loss == IF pnl < 0 THEN -pnl ELSE 0
    IN  IF loss >= threshold THEN "BREACH"
        ELSE IF 10 * loss >= 8 * threshold THEN "APPROACHING"
        ELSE IF 10 * loss >= 5 * threshold THEN "ELEVATED"
        ELSE "NORMAL"

\* C28: a poll that finds positions is in the one band that its P&L and the
\* threshold give; a poll in one of the three bands below BREACH counts the
\* poll, records the P&L and the peak, and goes to the wait of the iteration,
\* whichever of the three it is: no exit, no order, nothing else written.
C28_BandsOfAPoll ==
    /\ [](PolledPositions =>
             /\ last_pnl # None
             /\ obs.band = ExpectedBand(TheValue(last_pnl), config.max_loss))
    /\ [][ (ObservesPnl /\ obs'.band # "BREACH") =>
              /\ obs'.band \in {"APPROACHING", "ELEVATED", "NORMAL"}
              /\ poll_count' = poll_count + 1
              /\ peak_loss' <= peak_loss
              /\ pc' = "wait"
              /\ waits' = <<config.poll_interval>>
              /\ ~obs'.exit_invoked
              /\ UNCHANGED <<exit_count, all_exit_results, exited_symbols, last_exit_time,
                             stop_event, order_seq, ex, now, thread>>
         ]_vars

\* C28 witness: the two positions of the loss scenario, at -5500 together,
\* polled against a threshold of 10000: the band is ELEVATED and there is no
\* exit.
C28_Witness ==
    /\ PolledPositions
    /\ config.max_loss = 10000
    /\ last_pnl = Some(-5500)
    /\ Len(obs.positions) = 2
    /\ obs.band = "ELEVATED"
    /\ exit_count = 0
    /\ order_seq = 0
    /\ pc = "wait"
\* exit_all_positions was called with the empty list.
CalledWithNoPositions == obs.kind = "exec" /\ obs.positions = <<>> /\ pc # "call_exit"

\* The log lines of the exit call that announce the breach.
BreachLogsIn(trace) ==
    SelectSeq(trace, LAMBDA e : e[1] = "log" /\ e[2] = "THRESHOLD BREACHED! Exiting")

\* C29: exit_all_positions given the empty list returns the empty list of
\* results, calls the broker for no order, and logs no breach.
C29_NoPositionsNoExit ==
    CalledWithNoPositions =>
        /\ pc # "place"
        /\ (pc = "call_verify" => ex.phase = "placed" /\ ex.results = <<>>)
        /\ SelectSeq(ExitTrace, LAMBDA e : e[1] = "place_order") = <<>>
        /\ BreachLogsIn(ExitTrace) = <<>>
        /\ order_seq = 0

\* C29 witness: the call with the empty list has returned, its one log line
\* says that there is nothing to exit.
C29_Witness ==
    /\ CalledWithNoPositions
    /\ pc = "call_verify"
    /\ ex.results = <<>>
    /\ ex.trace = << <<"log", "No positions to exit.">> >>
(***************************************************************************)
(* Claims about the detailed listing, checked under SpecLongRun            *)
(***************************************************************************)
\* C30, as stated: a poll whose count is a multiple of 30 and whose filtered
\* list is not empty writes the detailed listing, whatever its band, BREACH
\* included.
C30_ListingWhateverTheBand ==
    (PolledPositions /\ poll_count % DetailEvery = 0) => obs.listing

\* C30, amended: a poll whose filtered list is not empty writes the detailed
\* listing exactly when its count is a multiple of 30 and its band is not
\* BREACH, be it APPROACHING, ELEVATED or NORMAL; the poll of a BREACH goes to
\* the exit and writes none.  A poll that finds no position, or whose fetch
\* fails, writes none either.
C30_ListingUnlessBreach ==
    /\ PolledPositions =>
          (obs.listing <=> (poll_count % DetailEvery = 0 /\ obs.band # "BREACH"))
    /\ obs.listing => PolledPositions

\* C30 witness: the thirtieth poll, in the APPROACHING band, has written the
\* listing.
C30_Witness ==
    /\ PolledPositions
    /\ poll_count = DetailEvery
    /\ obs.band = "APPROACHING"
    /\ obs.listing
    /\ pc = "wait"
(***************************************************************************)
(* Claims about the worker and its results, checked under Spec and SpecExec *)
(***************************************************************************)
\* A caller's start() is made in this step.
StartCalled == caller'.starts # caller.starts

\* C31: there is one worker at most: the thread is alive exactly while the
\* one worker is somewhere in its loop, and a worker is launched by a start()
\* only, with no worker alive.  A start() made while the worker is alive, the
\* stop event set or not, is refused: the thread, the worker's position, the
\* session and the stop event stay as they were.
C31_OneWorkerAtMost ==
    /\ [](thread = "alive" <=> pc \notin {"idle", "ended"})
    /\ [][ /\ Launches => (StartCalled /\ pc \in {"idle", "ended"} /\ pc' = "loop")
           /\ (StartCalled /\ thread = "alive") =>
                 /\ caller'.refused
                 /\ UNCHANGED <<config, now, thread, stop_event, sessionVars, pc, waits,
                                ex, order_seq, obs>>
           /\ (StartCalled /\ thread # "alive") => (Launches /\ ~caller'.refused)
         ]_vars

\* C31 witness: a start() has been refused with the worker alive inside a call
\* of the broker, the stop event is set and the join of stop() is over, at
\* its timeout or after it, with the worker still running.
C31_Witness ==
    /\ caller.refused
    /\ caller.stop_join = None
    /\ thread = "alive"
    /\ stop_event
    /\ InBrokerCall
    /\ now >= JoinTimeout
    /\ poll_count = 1
\* The transaction that closes a position of a side.
Opposite(s) == IF s = "LONG" THEN "SELL" ELSE IF s = "SHORT" THEN "BUY" ELSE "NONE"

\* C32: every result place_exit_order has returned is a success exactly when
\* it carries an order id; for a position of non-zero quantity it has the
\* size of the position's quantity and the transaction opposite to the
\* position's side; for a position of quantity 0 it has the transaction NONE,
\* the quantity 0 and no success.
C32_ResultOfAnExitOrder ==
    \A i \in 1..Len(ex.results) :
       LET p == ex.positions[i]
           r == ex.results[i]
       IN  /\ r.success <=> r.order_id # None
           /\ r.tradingsymbol = p.tradingsymbol
           /\ p.quantity # 0 =>
                 /\ r.quantity = Abs(p.quantity)
                 /\ r.quantity > 0
                 /\ r.transaction_type = Opposite(side(p))
                 /\ r.transaction_type \in {"BUY", "SELL"}
           /\ p.quantity = 0 =>
                 /\ r.transaction_type = "NONE"
                 /\ r.quantity = 0
                 /\ ~r.success

\* C32 witness: a live batch has returned the result of a short position,
\* bought back under an order id, and the result of a position of quantity 0.
C32_Witness ==
    /\ ex.phase = "placed"
    /\ ~obs.dry_run
    /\ Len(ex.results) = 2
    /\ ex.positions[1].quantity < 0
    /\ ex.results[1].success
    /\ ex.results[1].order_id = OrderId(1)
    /\ ex.results[1].transaction_type = "BUY"
    /\ ex.positions[2].quantity = 0
    /\ ex.results[2].transaction_type = "NONE"
    /\ ex.results[2].order_id = None
\* The worker is inside _trigger_exit: the tick that detected the breach has
\* not completed.
MidExit == pc \in {"place", "lookup"}

\* The positions passed to exit_all_positions in this step.
PassedInStep == IF pc = "poll" /\ pc' = "place" THEN Len(ex'.positions) ELSE 0

\* The exit time and the exit count agree once the tick of an exit is over,
\* and has_exited says whether the exit count is above 0, in every state.
ExitCountAndTime ==
    /\ [](~MidExit => (last_exit_time # None <=> exit_count > 0))
    /\ [](has_exited <=> exit_count > 0)

\* C33 as stated: in every state the results accumulated are as many as the
\* positions passed to exit_all_positions so far in the run, so that every
\* step adds as many results as it passes positions.
C33_ResultsCountInEveryState ==
    /\ ExitCountAndTime
    /\ [][ IF Launches
           THEN all_exit_results' = <<>>
           ELSE Len(all_exit_results') = Len(all_exit_results) + PassedInStep
         ]_vars

\* C33, amended: once the tick of an exit is over the exit time is set exactly
\* when the exit count is above 0; has_exited is true exactly when the exit
\* count is above 0; and the results accumulated are as many as the positions
\* passed to exit_all_positions in the exits that have returned: the exit
\* that is under way has been counted and given its positions, and its
\* results, one per position, are appended in the one step that ends their
\* placement, after the results of the exits before it, which stay.
C33_ResultsCountAfterEachExit ==
    /\ ExitCountAndTime
    /\ []((~MidExit /\ exit_count = 0) => all_exit_results = <<>>)
    /\ [](~MidExit => /\ Len(all_exit_results) >= exit_count
                      /\ Len(all_exit_results) <= MaxPositions * exit_count)
    /\ [][ IF Launches
           THEN all_exit_results' = <<>> /\ exit_count' = 0 /\ last_exit_time' = None
           ELSE /\ PassedInStep > 0 =>
                      /\ ex'.positions = obs'.positions
                      /\ ex'.results = <<>>
                      /\ exit_count' = exit_count + 1
                      /\ all_exit_results' = all_exit_results
                /\ (pc = "place" /\ pc' = "place") =>
                      /\ ex'.positions = ex.positions
                      /\ all_exit_results' = all_exit_results
                /\ all_exit_results' # all_exit_results =>
                      /\ pc = "place" /\ pc' # "place"
                      /\ Len(all_exit_results') = Len(all_exit_results) + Len(ex.positions)
                      /\ SubSeq(all_exit_results', 1, Len(all_exit_results)) = all_exit_results
                      /\ \A i \in 1..Len(ex.positions) :
                            all_exit_results'[Len(all_exit_results) + i].tradingsymbol =
                               ex.positions[i].tradingsymbol
         ]_vars

\* C33 witness: the second exit of a run is over: two exits counted, the exit
\* time stamped now, has_exited true, and the four results of the two
\* positions passed each time.
C33_Witness ==
    /\ pc = "wait"
    /\ obs.exit_done
    /\ exit_count = 2
    /\ has_exited
    /\ last_exit_time = Some(now)
    /\ Len(obs.positions) = 2
    /\ Len(all_exit_results) = 4
====
